---- MODULE Spec2Model ----
(***************************************************************************)
(* Model of system_monitor.py: the SystemMonitor collectors, the snapshot  *)
(* assembled by SystemMonitor.monitor, and the sample / log / print /      *)
(* sleep loop of main().                                                   *)
(***************************************************************************)
EXTENDS Integers, Sequences, FiniteSets, TLC

VARIABLES
    pc,          \* position of main(): "loop", "collect", "log", "print", "sleep", "stopped", "crashed"
    idx,         \* index into MonitorKeys of the dict entry monitor() evaluates next
    data,        \* the dict under construction in monitor() / held by main()
    clock,       \* current time in seconds (datetime.now / time.sleep)
    log,         \* records appended to the log file, oldest first
    printed,     \* summaries written to stdout, oldest first
    passes,      \* number of calls of monitor.monitor() started so far
    starts,      \* starts[k]: clock when the k-th call of monitor() started
    ends,        \* ends[k]: clock when the k-th pass reached time.sleep
    fault,       \* the exception that left the while loop, or "none"
    partitions,  \* what psutil.disk_partitions() lists (get_disk_info input)
    disk_result, \* outcome of one call of get_disk_info
    procs,       \* what psutil.process_iter() yields (get_top_processes input)
    top_n,       \* argument of get_top_processes
    top_result   \* outcome of one call of get_top_processes

mainVars == <<pc, idx, data, clock, log, printed, passes, starts, ends, fault>>
diskVars == <<partitions, disk_result>>
procVars == <<procs, top_n, top_result>>
vars == <<pc, idx, data, clock, log, printed, passes, starts, ends, fault,
          partitions, disk_result, procs, top_n, top_result>>

----------------------------------------------------------------------------
(* Bounds of the model *)

MaxMounts == 5
NumDevices == 2
MaxProcs == 2
MaxMetric == 1
MaxK == 2
MaxTicks == 3
MaxDelay == 1

(* Program constants *)

DefaultTopN == 5
Interval == 5
CpuWindow == 1

Min(a, b) == IF a < b THEN a ELSE b

Range(f) == {f[i] : i \in DOMAIN f}

----------------------------------------------------------------------------
(* get_disk_info *)

Devices == 1..NumDevices

\* One mounted partition: its device, its mountpoint (distinct per mount) and
\* what psutil.disk_usage(mountpoint) does: return, raise PermissionError, or
\* raise another OSError.
MountStatus == {"ok", "denied", "error"}

Partition(d, m, s) == [device |-> d, mountpoint |-> m, status |-> s]

\* The entry stored for an accessible partition (its usage figures are left
\* out: no property depends on them).
DiskEntry(p) == [mountpoint |-> p.mountpoint]

\* Python dict assignment d[k] = v.
DictSet(d, k, v) == [x \in (DOMAIN d) \cup {k} |-> IF x = k THEN v ELSE d[x]]

EmptyDict == [x \in {} |-> 0]

\* The body of the for loop of get_disk_info over parts[1..n].
RECURSIVE DiskLoop(_, _)
DiskLoop(parts, n) ==
    IF n = 0 THEN [raised |-> "none", value |-> EmptyDict]
    ELSE LET before == DiskLoop(parts, n - 1)
             p == parts[n]
         IN  IF before.raised # "none" THEN before
             ELSE IF p.status = "ok"
                  THEN [raised |-> "none",
                        value |-> DictSet(before.value, p.device, DiskEntry(p))]
             ELSE IF p.status = "denied" THEN before
             ELSE [raised |-> "OSError", value |-> EmptyDict]

get_disk_info(parts) == DiskLoop(parts, Len(parts))

NoDiskResult == [raised |-> "pending", value |-> EmptyDict]

----------------------------------------------------------------------------
(* get_top_processes *)

NoneMetric == -1

Metrics == 0..MaxMetric

\* A process as process_iter yields it: status "gone" makes the read of
\* proc.info raise NoSuchProcess / AccessDenied; a metric that could not be
\* read is None.
ProcInfo(pid, st, c, m) ==
    [pid |-> pid, status |-> st, cpu_percent |-> c, memory_percent |-> m]

\* The for loop of get_top_processes: proc.info of every process whose read
\* does not raise, in enumeration order.
RECURSIVE Appended(_)
Appended(ps) ==
    IF ps = << >> THEN << >>
    ELSE LET rest == Appended(Tail(ps))
         IN  IF Head(ps).status = "gone" THEN rest ELSE <<Head(ps)>> \o rest

\* sorted(..., reverse=True) is stable: an element goes after every element
\* whose key is greater than or equal to its own.
RECURSIVE InsertDesc(_, _, _)
InsertDesc(s, x, key) ==
    IF s = << >> THEN <<x>>
    ELSE IF Head(s)[key] >= x[key] THEN <<Head(s)>> \o InsertDesc(Tail(s), x, key)
    ELSE <<x>> \o s

\* A sort that puts equal keys in reverse enumeration order: an ascending
\* stable sort, reversed afterwards (sorted(...)[::-1]).
RECURSIVE InsertAsc(_, _, _)
InsertAsc(s, x, key) ==
    IF s = << >> THEN <<x>>
    ELSE IF Head(s)[key] <= x[key] THEN <<Head(s)>> \o InsertAsc(Tail(s), x, key)
    ELSE <<x>> \o s

RECURSIVE SortedAscUpTo(_, _, _)
SortedAscUpTo(s, n, key) ==
    IF n = 0 THEN << >>
    ELSE InsertAsc(SortedAscUpTo(s, n - 1, key), s[n], key)

SortedAscReversed(s, key) ==
    LET a == SortedAscUpTo(s, Len(s), key)
    IN  [i \in 1..Len(a) |-> a[Len(a) + 1 - i]]

RECURSIVE SortedDescUpTo(_, _, _)
SortedDescUpTo(s, n, key) ==
    IF n = 0 THEN << >>
    ELSE InsertDesc(SortedDescUpTo(s, n - 1, key), s[n], key)

SortedDesc(s, key) == SortedDescUpTo(s, Len(s), key)

\* sorted() compares keys as soon as there are two elements; None does not
\* support '<', so the call raises TypeError.
SortRaises(s, key) ==
    Len(s) >= 2 /\ \E i \in 1..Len(s) : s[i][key] = NoneMetric

\* Python slice s[:n] for n >= 0.
Slice(s, n) == SubSeq(s, 1, Min(n, Len(s)))

NoTop == [raised |-> "pending", top_cpu_processes |-> << >>,
          top_memory_processes |-> << >>]

get_top_processes(ps, n) ==
    LET processes == Appended(ps)
    IN  IF SortRaises(processes, "cpu_percent") \/ SortRaises(processes, "memory_percent")
        THEN [raised |-> "TypeError", top_cpu_processes |-> << >>,
              top_memory_processes |-> << >>]
        ELSE [raised |-> "none",
              top_cpu_processes |-> Slice(SortedDesc(processes, "cpu_percent"), n),
              top_memory_processes |-> Slice(SortedDesc(processes, "memory_percent"), n)]

\* What one enumerated process can look like.
ProcShapes(pid) ==
    {ProcInfo(pid, "gone", NoneMetric, NoneMetric)} \cup
    {ProcInfo(pid, "ok", c, m) : c \in Metrics \cup {NoneMetric},
                                 m \in Metrics \cup {NoneMetric}}

TopNs == (0..MaxK) \cup {DefaultTopN}

----------------------------------------------------------------------------
(* Specification of get_disk_info alone *)

MainIdle ==
    /\ pc = "stopped" /\ idx = 0 /\ data = EmptyDict /\ clock = 0
    /\ log = << >> /\ printed = << >> /\ passes = 0
    /\ starts = << >> /\ ends = << >> /\ fault = [kind |-> "none", at |-> "none"]

DiskIdle == partitions = << >> /\ disk_result = NoDiskResult

ProcIdle == procs = << >> /\ top_n = DefaultTopN /\ top_result = NoTop

InitDisk ==
    /\ MainIdle /\ ProcIdle
    /\ partitions = << >>
    /\ disk_result = NoDiskResult

\* psutil.disk_partitions() lists one more mounted partition; the k-th listed
\* has mountpoint k.
ListPartition ==
    /\ disk_result.raised = "pending"
    /\ Len(partitions) < MaxMounts
    /\ \E d \in Devices, st \in MountStatus :
          partitions' = Append(partitions, Partition(d, Len(partitions) + 1, st))
    /\ UNCHANGED <<disk_result, mainVars, procVars>>

CallGetDiskInfo ==
    /\ disk_result.raised = "pending"
    /\ disk_result' = get_disk_info(partitions)
    /\ UNCHANGED <<partitions, mainVars, procVars>>

NextDisk == ListPartition \/ CallGetDiskInfo

SpecDisk == InitDisk /\ [][NextDisk]_vars

(* Specification of get_top_processes alone *)

InitProc ==
    /\ MainIdle /\ DiskIdle
    /\ procs = << >>
    /\ top_n \in TopNs
    /\ top_result = NoTop

\* psutil.process_iter() yields one more process, with a pid not yet seen.
EnumerateProcess ==
    /\ top_result.raised = "pending"
    /\ Len(procs) < MaxProcs
    /\ \E pid \in (1..MaxProcs) \ {procs[i].pid : i \in 1..Len(procs)} :
          \E p \in ProcShapes(pid) : procs' = Append(procs, p)
    /\ UNCHANGED <<top_n, top_result, mainVars, diskVars>>

CallGetTopProcesses ==
    /\ top_result.raised = "pending"
    /\ top_result' = get_top_processes(procs, top_n)
    /\ UNCHANGED <<procs, top_n, mainVars, diskVars>>

NextProc == EnumerateProcess \/ CallGetTopProcesses

SpecProc == InitProc /\ [][NextProc]_vars

----------------------------------------------------------------------------
(* SystemMonitor.monitor, log_monitoring_data, print_summary and main *)

\* The keys of the dict built by monitor(), in the order Python evaluates them.
MonitorKeys == <<"timestamp", "system", "cpu", "memory", "disk", "network", "processes">>

\* Exceptions the psutil / socket calls of a collector can raise.
CollectorFaults == {"PermissionDenied", "Unavailable"}

NoFault == [kind |-> "none", at |-> "none"]

\* What the host shows the disk and process collectors during a pass.
HostPartitions ==
    { <<Partition(1, 1, "ok"), Partition(2, 2, "denied")>>,
      <<Partition(1, 1, "ok"), Partition(1, 2, "ok")>>,
      <<Partition(1, 1, "error")>> }

HostProcs ==
    { <<ProcInfo(1, "ok", 0, 1), ProcInfo(2, "ok", 1, 0)>>,
      <<ProcInfo(2, "ok", 0, 0), ProcInfo(1, "gone", NoneMetric, NoneMetric)>>,
      <<ProcInfo(1, "ok", NoneMetric, 0), ProcInfo(2, "ok", 1, 1)>> }

\* datetime.now().isoformat(): the reading of the clock written field by
\* field; its minute and second fields are kept here.
isoformat(now) == [minute |-> now \div 60, second |-> now % 60]

\* The readings of the clock at which main() may be started.
StartTimes == {0, 55}

\* A fixed-rate sleep: the time the pass took is taken off the interval.
SleepFixedRate(start, now) ==
    IF now - start >= Interval THEN 0 ELSE Interval - (now - start)

\* A sleep of a tenth of the interval (a wrong unit), rounded down.
SleepTooShort(start, now) == Interval \div 10

\* time.sleep(5) moves the clock on by the interval; the time the pass has
\* already taken (now - start) plays no part.
SleepDuration(start, now) == Interval

\* f.write on a file opened in mode 'w': the file is truncated first.
OverwriteRecord(file, record) == <<record>>

\* f.write on a file opened in mode 'a'.
AppendRecord(file, record) == Append(file, record)

\* A monitor() whose dict display lacks its last entry.
MonitorDoneEarly(i) == i = Len(MonitorKeys) - 1

\* monitor() returns once the last entry of the dict display is evaluated.
MonitorDone(i) == i = Len(MonitorKeys)

Init ==
    /\ pc = "loop" /\ idx = 0 /\ data = EmptyDict /\ clock \in StartTimes
    /\ log = << >> /\ printed = << >> /\ passes = 0
    /\ starts = << >> /\ ends = << >> /\ fault = NoFault
    /\ DiskIdle /\ ProcIdle

\* main: data = monitor.monitor() is called.
StartPass ==
    /\ pc = "loop" /\ passes < MaxTicks
    /\ pc' = "collect" /\ idx' = 1 /\ data' = EmptyDict
    /\ passes' = passes + 1
    /\ starts' = Append(starts, clock)
    /\ UNCHANGED <<clock, log, printed, ends, fault, diskVars, procVars>>

\* The entry `key` of the dict evaluates to `payload` after `dur` seconds.
Returned(key, payload, dur) ==
    /\ pc = "collect" /\ MonitorKeys[idx] = key
    /\ data' = DictSet(data, key, payload)
    /\ clock' = clock + dur
    /\ IF MonitorDone(idx) THEN pc' = "log" /\ idx' = 0
                           ELSE pc' = "collect" /\ idx' = idx + 1
    /\ UNCHANGED <<log, printed, passes, starts, ends, fault, diskVars, procVars>>

\* The entry `key` raises: nothing in monitor() or in the while loop catches
\* it, so it leaves main().
Raised(key, kind) ==
    /\ pc = "collect" /\ MonitorKeys[idx] = key
    /\ pc' = "crashed" /\ idx' = 0 /\ data' = EmptyDict
    /\ fault' = [kind |-> kind, at |-> key]
    /\ UNCHANGED <<clock, log, printed, passes, starts, ends, diskVars, procVars>>

ReadTimestamp == Returned("timestamp", isoformat(clock), 0)

GetSystemInfo == Returned("system", [hostname |-> "host"], 0)

\* Two calls of psutil.cpu_percent(interval=1) block for one window each.
GetCpuInfo == Returned("cpu", [cpu_percent |-> 0], 2 * CpuWindow)

GetMemoryInfo == Returned("memory", [memory_percent |-> 0], 0)

GetDiskInfo ==
    \E parts \in HostPartitions :
        LET r == get_disk_info(parts)
        IN  IF r.raised = "none" THEN Returned("disk", r.value, 0)
                                 ELSE Raised("disk", r.raised)

GetNetworkInfo == Returned("network", [bytes_sent |-> 0], 0)

\* Reading every process takes up to MaxDelay seconds.
GetTopProcesses ==
    \E ps \in HostProcs, d \in 0..MaxDelay :
        LET r == get_top_processes(ps, DefaultTopN)
        IN  IF r.raised = "none"
            THEN Returned("processes",
                          [top_cpu_processes |-> r.top_cpu_processes,
                           top_memory_processes |-> r.top_memory_processes], d)
            ELSE Raised("processes", r.raised)

\* A library call of one of the get_* methods raises.
CollectorRaises ==
    \E key \in Range(MonitorKeys) \ {"timestamp"}, kind \in CollectorFaults :
        Raised(key, kind)

\* main: monitor.log_monitoring_data(data)
LogData ==
    /\ pc = "log"
    /\ log' = AppendRecord(log, data)
    /\ pc' = "print"
    /\ UNCHANGED <<idx, data, clock, printed, passes, starts, ends, fault,
                   diskVars, procVars>>

\* open() or f.write raises OSError: it leaves main().
LogFails ==
    /\ pc = "log"
    /\ pc' = "crashed" /\ fault' = [kind |-> "OSError", at |-> "log"]
    /\ UNCHANGED <<idx, data, clock, log, printed, passes, starts, ends,
                   diskVars, procVars>>

Summary(d, whole) == [timestamp |-> d["timestamp"], complete |-> whole]

\* main: monitor.print_summary(data), then time.sleep is reached.
PrintSummary ==
    /\ pc = "print"
    /\ printed' = Append(printed, Summary(data, TRUE))
    /\ ends' = Append(ends, clock)
    /\ pc' = "sleep"
    /\ UNCHANGED <<idx, data, clock, log, passes, starts, fault, diskVars, procVars>>

\* One of the print calls raises OSError, before or after some lines went out.
PrintFails ==
    /\ pc = "print"
    /\ \/ printed' = printed
       \/ printed' = Append(printed, Summary(data, FALSE))
    /\ pc' = "crashed" /\ fault' = [kind |-> "OSError", at |-> "print"]
    /\ UNCHANGED <<idx, data, clock, log, passes, starts, ends, diskVars, procVars>>

\* main: time.sleep(5), then the while loop goes round.
Sleep ==
    /\ pc = "sleep"
    /\ clock' = clock + SleepDuration(starts[passes], clock)
    /\ pc' = "loop"
    /\ UNCHANGED <<idx, data, log, printed, passes, starts, ends, fault,
                   diskVars, procVars>>

\* A KeyboardInterrupt caught inside the while loop: the loop goes round.
KeyboardInterruptInLoop ==
    /\ pc \in {"loop", "collect", "log", "print", "sleep"}
    /\ fault.kind = "none"
    /\ pc' = "loop"
    /\ fault' = [kind |-> "KeyboardInterrupt", at |-> pc]
    /\ UNCHANGED <<idx, data, clock, log, printed, passes, starts, ends,
                   diskVars, procVars>>

Running == pc \in {"loop", "collect", "log", "print", "sleep"}

\* Ctrl+C: KeyboardInterrupt is raised wherever main() is and caught by the
\* except clause around the while loop. Inside print_summary some lines of the
\* summary may already be out.
KeyboardInterrupt ==
    /\ Running
    /\ pc' = "stopped"
    /\ fault' = [kind |-> "KeyboardInterrupt", at |-> pc]
    /\ \/ printed' = printed
       \/ pc = "print" /\ printed' = Append(printed, Summary(data, FALSE))
    /\ UNCHANGED <<idx, data, clock, log, passes, starts, ends, diskVars, procVars>>

Next ==
    \/ StartPass
    \/ ReadTimestamp
    \/ GetSystemInfo
    \/ GetCpuInfo
    \/ GetMemoryInfo
    \/ GetDiskInfo
    \/ GetNetworkInfo
    \/ GetTopProcesses
    \/ CollectorRaises
    \/ LogData
    \/ LogFails
    \/ PrintSummary
    \/ PrintFails
    \/ Sleep
    \/ KeyboardInterrupt

Spec == Init /\ [][Next]_vars

----------------------------------------------------------------------------
(* Properties *)

\* The resource domains, one per collector; the other keys of a snapshot
\* (timestamp, system) describe the host and the pass.
Domains == {"cpu", "memory", "disk", "network", "processes"}

Metadata == {"timestamp", "system"}

SnapshotDomains(d) == (DOMAIN d) \ Metadata

\* The instant a timestamp stands for, in seconds.
SecondsOf(ts) == ts.minute * 60 + ts.second

OneEntryPerCollector(d) ==
    /\ SnapshotDomains(d) = Domains
    /\ Cardinality(SnapshotDomains(d)) = Cardinality(Domains)

\* C1: a collector that raises a fault is recorded as Failed(PermissionDenied)
\* for its domain alone; the snapshot is still assembled and reported and the
\* loop goes on: the fault never aborts the tick or the process.
C1_FailureIsolation ==
    \A d \in Domains :
        (fault.at = d /\ fault.kind \in CollectorFaults) =>
            /\ pc # "crashed"
            /\ d \in DOMAIN data
            /\ data[d] = [failed |-> "PermissionDenied"]

\* C2: every snapshot handed to the reporter (held by main() for logging or
\* printing, or already in the log) has exactly one entry per collector: cpu,
\* memory, disk, network, processes.
C2_OneEntryPerCollector ==
    /\ \A k \in 1..Len(log) : OneEntryPerCollector(log[k])
    /\ pc \in {"log", "print"} => OneEntryPerCollector(data)

C2_Witness ==
    /\ Len(log) >= 2
    /\ pc = "print"
    /\ Cardinality(DOMAIN data["disk"]) = 1

\* C3 as stated: pass k starts at schedule start + (k - 1) * interval, whatever
\* sampling and reporting take.
C3_FixedRate ==
    \A k \in 1..Len(starts) : starts[k] = starts[1] + (k - 1) * Interval

\* C3 amended: fixed delay. From the start of one pass to the start of the next
\* there is at least the interval plus the time sampling and reporting took,
\* which is at least the two CPU windows; the k-th start drifts from the
\* schedule by at least the accumulated processing time.
C3_FixedDelay ==
    \A k \in 1..(Len(starts) - 1) :
        /\ k <= Len(ends)
        /\ ends[k] - starts[k] >= 2 * CpuWindow
        /\ starts[k + 1] - starts[k] >= Interval + (ends[k] - starts[k])
        /\ starts[k + 1] - starts[1] >= k * (Interval + 2 * CpuWindow)

C3_Witness ==
    /\ Len(starts) = 3
    /\ starts[3] - starts[1] > 2 * Interval
    /\ starts[2] - starts[1] = Interval + (ends[1] - starts[1])

\* C4 as stated: when the loop has stopped on cancellation, the tick that was
\* under way has been completed: its snapshot is logged and wholly printed.
C4_CompletesTick ==
    pc = "stopped" =>
        /\ Len(log) = passes
        /\ Len(printed) = passes
        /\ \A k \in 1..Len(printed) : printed[k].complete

\* C4 amended: cancellation in the middle of a tick stops the loop at once. The
\* snapshot under assembly is dropped without being logged; nothing is logged
\* by the step that stops the loop; only inside print_summary may a part of the
\* summary be out. Stopped is terminal: no sampling, logging or printing after.
C4_StopsAtOnce ==
    [][ /\ (fault'.kind = "KeyboardInterrupt" /\ fault.kind = "none") =>
            /\ pc' = "stopped"
            /\ log' = log /\ passes' = passes
            /\ (pc # "print" => printed' = printed)
            /\ (pc = "print" =>
                  \/ printed' = printed
                  \/ printed' = Append(printed, Summary(data, FALSE)))
        /\ pc = "stopped" =>
            /\ pc' = "stopped"
            /\ log' = log /\ printed' = printed /\ passes' = passes
      ]_vars

C4_Witness ==
    /\ pc = "stopped"
    /\ fault.at = "collect"
    /\ passes = 2
    /\ Len(log) = 1

\* C5: a failure of the reporter (log_monitoring_data or print_summary raising
\* an I/O error) does not abort the loop.
C5_ReporterFailureContained ==
    (fault.kind = "OSError" /\ fault.at \in {"log", "print"}) => pc # "crashed"

\* C9: once n passes are done (the loop is at time.sleep or back at the top),
\* the reporter has logged and printed exactly n snapshots, one per pass, and
\* each snapshot's timestamp is at least the previous one's plus the interval.
C9_OncePerTickSpaced ==
    /\ pc \in {"sleep", "loop"} =>
          /\ Len(log) = passes
          /\ Len(printed) = passes
          /\ \A k \in 1..passes : printed[k].complete
    /\ \A k \in 1..Len(log) : SecondsOf(log[k]["timestamp"]) = starts[k]
    /\ \A k \in 1..(Len(log) - 1) :
          SecondsOf(log[k + 1]["timestamp"]) >= SecondsOf(log[k]["timestamp"]) + Interval

C9_Witness ==
    /\ pc = "sleep"
    /\ passes = 3
    /\ Len(log) = 3
    /\ log[1]["timestamp"].minute < log[3]["timestamp"].minute
    /\ SecondsOf(log[3]["timestamp"]) >= SecondsOf(log[1]["timestamp"]) + 2 * Interval

C10_Order ==
    /\ Len(log) - Len(printed) \in {0, 1}
    /\ Len(log) <= passes
    /\ \A k \in 1..Len(log) : DOMAIN log[k] = Range(MonitorKeys)
    /\ \A j, k \in 1..Len(log) : log[j]["timestamp"] = log[k]["timestamp"] => j = k
    /\ \A k \in 1..Len(printed) : printed[k].timestamp = log[k]["timestamp"]
    /\ pc = "print" => Len(log) = Len(printed) + 1
    /\ pc = "sleep" => (Len(printed) = passes /\ printed[passes].complete)

C10_LogGrows ==
    /\ Len(log') \in {Len(log), Len(log) + 1}
    /\ SubSeq(log', 1, Len(log)) = log

\* C10: a snapshot is logged only after all collectors of its pass returned,
\* printed only after it was logged, and the sleep comes only after the print;
\* the log holds as many records as there are printed summaries or one more,
\* each snapshot at most once, and it only grows.
C10_ReportOrdering == []C10_Order /\ [][C10_LogGrows]_vars

C10_Witness ==
    /\ pc = "print"
    /\ Len(log) = 3
    /\ Len(printed) = 2

(* get_disk_info *)

Accessible(parts) == {i \in 1..Len(parts) : parts[i].status = "ok"}

HasEntry(info, p) == \E dev \in DOMAIN info : info[dev].mountpoint = p.mountpoint

\* C6: when the usage queries only succeed or fail with a permission error,
\* get_disk_info succeeds and returns exactly one entry for each accessible
\* mount and none for an inaccessible one.
C6_OneEntryPerAccessibleMount ==
    (/\ disk_result.raised # "pending"
     /\ \A i \in 1..Len(partitions) : partitions[i].status \in {"ok", "denied"}) =>
        /\ disk_result.raised = "none"
        /\ Cardinality(DOMAIN disk_result.value) = Cardinality(Accessible(partitions))
        /\ \A i \in 1..Len(partitions) :
              HasEntry(disk_result.value, partitions[i]) <=> i \in Accessible(partitions)

(* get_top_processes *)

\* The enumerated processes whose proc.info could be read.
Readable == {i \in 1..Len(procs) : procs[i].status # "gone"}

PosOf(p) == CHOOSE i \in 1..Len(procs) : procs[i].pid = p.pid

ByPid(p, q) == p.pid < q.pid

ByEnumeration(p, q) == PosOf(p) < PosOf(q)

Before(p, q, tie) == IF tie = "pid" THEN ByPid(p, q) ELSE ByEnumeration(p, q)

TopList(L, key, tie) ==
    /\ Len(L) = Min(top_n, Cardinality(Readable))
    /\ \A i \in 1..Len(L) : \E k \in Readable : L[i] = procs[k]
    /\ \A i, j \in 1..Len(L) :
          i < j => /\ L[i][key] >= L[j][key]
                   /\ L[i][key] = L[j][key] => Before(L[i], L[j], tie)
    /\ \A k \in Readable :
          (\A i \in 1..Len(L) : L[i] # procs[k]) =>
              \A i \in 1..Len(L) : L[i][key] >= procs[k][key]

Sampled ==
    {i \in Readable : procs[i].cpu_percent # NoneMetric
                      /\ procs[i].memory_percent # NoneMetric}

\* C8: a process that went away or whose metric could not be read is skipped:
\* get_top_processes returns, and both lists hold only fully read processes,
\* min(K, number of them) each.
C8_RaceTolerance ==
    top_result.raised # "pending" =>
        /\ top_result.raised = "none"
        /\ \A L \in {top_result.top_cpu_processes, top_result.top_memory_processes} :
              /\ Len(L) = Min(top_n, Cardinality(Sampled))
              /\ \A i \in 1..Len(L) : \E k \in Sampled : L[i] = procs[k]

====
